---------------------------- MODULE Spec2Model ----------------------------
(***************************************************************************)
(* A model of reductstore/reduct-vibration-example: the signal generator,  *)
(* the float32 codec, the timestamp arithmetic, the two storage paths      *)
(* (InfluxDB points, ReductStore records), the benchmark harness of       *)
(* scripts/run_benchmark.py and the example scripts.                       *)
(*                                                                         *)
(* Time.  `now` is the wall clock (time.time()) counted in the finest unit *)
(* of the model, the nanosecond.  32-bit integers cannot hold 10 s of real *)
(* nanoseconds, so the model keeps the real MICROSECOND (1 000 000 per     *)
(* second) and scales the nanosecond: a microsecond holds NsPerUs model    *)
(* nanoseconds (1000 in the source).  Frequencies and durations are small  *)
(* positive integers: what the arithmetic depends on is whether the        *)
(* frequency divides the unit, and 3 does not divide 1 000 000 just as the *)
(* configured 30 000 does not.                                             *)
(*                                                                         *)
(* Samples.  A float32 sample is its 32-bit IEEE-754 pattern, a natural.   *)
(***************************************************************************)
EXTENDS Integers, Sequences, FiniteSets, TLC

VARIABLES
    script,       \* which program runs: a script's main, or a pure function under test
    pc,           \* position in that program
    err,          \* the exception that ended the run, "" while none
    now,          \* wall clock, in model nanoseconds
    client,       \* the sink connection of the current scope: "none", "open", "closed"
    influx,       \* InfluxDB bucket: set of points [t |-> ns, v |-> sample]
    reduct,       \* ReductStore entry "sensor_readings": set of records [t |-> us, data |-> bytes]
    csv,          \* the CSV file: a sequence of lines, each a tuple of fields
    db,           \* the database of the trial in progress, "" before the first
    fi,           \* index into FREQUENCIES of the frequency of the trial
    run,          \* main: index of the run; benchmark_reductstore: the calls made
    frequency,    \* local of the trial
    duration,     \* local of the trial (DURATION in run_benchmark)
    time_step,    \* local of the InfluxDB trial
    signal,       \* the generated signal
    chunks,       \* signal_chunks
    k,            \* index of the next chunk of the write loop
    timestamp,    \* local of the ReductStore write loop
    start_time, end_time,
    start_write, end_write, start_read, end_read,
    result,       \* what query_data returned
    payloads,     \* the record payloads the last query handed to query_data
    queries,      \* the range queries issued so far, each with its trial's times
    log,          \* the steps of the current trial, in the order they completed
    metrics,      \* rms, peak_to_peak, crest_factor of the chunk being stored
    labels,       \* the labels store_data attached to its last bucket.write
    points,       \* influxdb_example.store_data: the list of points being built
    faithful      \* FALSE once the sink lost, corrupted or refused something

vars == <<script, db, pc, err, now, client, influx, reduct, csv, fi, run, frequency,
          duration, time_step, signal, chunks, k, timestamp, start_time, end_time,
          start_write, end_write, start_read, end_read, result, payloads, queries,
          log, metrics, labels, points, faithful>>

---------------------------------------------------------------------------
(* Bounds of the model *)

\* model nanoseconds per microsecond (the source has 1000)
NsPerUs == 2
\* trial duration in seconds (run_benchmark.py sets 10, reduct_data_processing.py 5)
DURATION == 2
\* how many times in a row a caller awaits benchmark_reductstore
MaxCalls == 2
\* frequencies and durations tried by the example script and the generator
MaxFrequency == 3
MaxDuration == 3
\* longest signal of the codec specification, in samples
MaxSamples == 3
\* how late a sleep may end, in model nanoseconds
MaxOversleep == 1
\* how long the sink takes to acknowledge a write and to answer a query,
\* in model nanoseconds
WriteLatency == 2
QueryLatency == 1
\* the frequency the example scripts generate at (1000 in the source)
ExampleFrequency == 2
\* a metric is a multiple of 1 / MetricScale, up to MaxMetric
MetricScale == 2
MaxMetric == 6

---------------------------------------------------------------------------
(* helper_functions.py *)

\* before store_data has attached any labels
NoLabels == [rms |-> "", peak_to_peak |-> "", crest_factor |-> ""]

SECOND == 1
MICROSECOND == 1000000
NANOSECOND == NsPerUs * MICROSECOND

\* the pattern of a non-negative float32: exponent field e, fraction field m
F32(e, m) == e * 8388608 + m

\* sample values of the codec specification: 0.0, 1.0, 2.0 and two patterns
\* whose four bytes all differ
Samples == {F32(0, 0), F32(127, 0), F32(128, 0), F32(2, 131844), F32(160, 1057800)}

Ok(v) == [err |-> "", val |-> v]
Raise(e) == [err |-> e, val |-> <<>>]

\* struct's '>f' of one sample: the four bytes of the pattern, most significant first
F32Bytes(x) ==
    << x \div 16777216, (x \div 65536) % 256, (x \div 256) % 256, x % 256 >>

\* a slip: the bytes read least significant first ('<f')
F32FromBytes_LittleEndian(b) ==
    ((b[4] * 256 + b[3]) * 256 + b[2]) * 256 + b[1]

\* struct's '>f' read back: the pattern of four bytes, most significant first
F32FromBytes(b) ==
    ((b[1] * 256 + b[2]) * 256 + b[3]) * 256 + b[4]

\* struct.pack(">{n}f", *signal)
RECURSIVE StructPack(_)
StructPack(s) ==
    IF s = <<>> THEN <<>> ELSE F32Bytes(Head(s)) \o StructPack(Tail(s))

pack_data(s) == StructPack(s)

\* a slip: an unpacking that reads the first 4n bytes and ignores the rest
StructUnpack_Truncating(n, data) ==
    Ok([i \in 1..n |-> F32FromBytes(SubSeq(data, 4 * i - 3, 4 * i))])

\* struct.unpack(">{n}f", data): struct.error unless data holds exactly 4n bytes
StructUnpack(n, data) ==
    IF Len(data) # 4 * n
    THEN Raise("struct.error")
    ELSE Ok([i \in 1..n |-> F32FromBytes(SubSeq(data, 4 * i - 3, 4 * i))])

\* np.linspace(0, duration, frequency * duration) raises ValueError for a negative
\* count; the noise makes the samples any float32 values
UpRamp(n) == [i \in 1..n |-> F32(127, i)]
DownRamp(n) == [i \in 1..n |-> F32(127, n + 1 - i)]
SignalsOf(n) == {UpRamp(n), DownRamp(n)}

generate_sensor_data(f, d) ==
    IF f * d < 0
    THEN {Raise("ValueError")}
    ELSE {Ok(s) : s \in SignalsOf(f * d)}

\* int(time.time() * time_unit); the units divide the model's finest unit
get_current_time(time_unit) == now \div (NANOSECOND \div time_unit)

\* the nearest integer to a / b, halves to the even neighbour (b > 0)
RoundHalfEven(a, b) ==
    LET q == a \div b
        r == a % b
    IN  IF 2 * r < b THEN q
        ELSE IF 2 * r > b THEN q + 1
        ELSE IF q % 2 = 0 THEN q ELSE q + 1

\* datetime.fromtimestamp(timestamp / time_unit).isoformat(timespec="microseconds"):
\* the instant, rounded to the microsecond.  The model of the string is its count
\* of microseconds.
time_to_rfc3339(ts, time_unit) == RoundHalfEven(ts, time_unit \div MICROSECOND)

---------------------------------------------------------------------------
(* reduct_data_processing.py: the read path *)

\* lines 45-49 for one record: num_points = len(data) // 4, then struct.unpack
UnpackRecord(data) == StructUnpack(Len(data) \div 4, data)

\* query_data's loop over the records the query returns, in the order returned;
\* an exception of struct.unpack leaves the loop and the function
RECURSIVE QueryLoop(_, _)
QueryLoop(query_signal, recs) ==
    IF recs = <<>> THEN Ok(query_signal)
    ELSE LET u == UnpackRecord(Head(recs))
         IN  IF u.err # "" THEN u
             ELSE QueryLoop(query_signal \o u.val, Tail(recs))

reduct_unpack_all(recs) == QueryLoop(<<>>, recs)

\* run_benchmark.py:102 and reduct_data_processing.py:75:
\*     timestamp += len(chunk) * TimeUnits.MICROSECOND // frequency
\* that is, floor(len * MICROSECOND / frequency).  Python's integers are
\* unbounded; here the product is split as len = q * frequency + r, which gives
\* the same floor and stays inside 32 bits for the configured frequencies.
\* a slip: the per-sample step taken first, len * (MICROSECOND // frequency)
ChunkAdvance_StepFirst(len, f) == len * (MICROSECOND \div f)

ChunkAdvance(len, f) ==
    LET q == len \div f
        r == len % f
    IN  q * MICROSECOND + (r * MICROSECOND) \div f

---------------------------------------------------------------------------
(* numpy: np.array_split(ary, sections) as run_benchmark.py:91 calls it *)

\* a slip: every chunk one element longer than its share
SplitPoint_OneMore(n, sections, i) ==
    LET each == n \div sections + 1
    IN  IF i * each < n THEN i * each ELSE n

\* the first Ntotal % sections chunks hold one element more than the others
SplitPoint(n, sections, i) ==
    LET each == n \div sections
        extras == n % sections
    IN  i * each + (IF i < extras THEN i ELSE extras)

np_array_split(s, sections) ==
    [i \in 1..sections |->
        SubSeq(s, SplitPoint(Len(s), sections, i - 1) + 1,
                  SplitPoint(Len(s), sections, i))]

---------------------------------------------------------------------------
(* Values of the variables a specification does not use *)

Unused ==
    /\ db = ""
    /\ err = ""
    /\ now = 0
    /\ client = "none"
    /\ influx = {}
    /\ reduct = {}
    /\ csv = <<>>
    /\ fi = 0
    /\ run = 0
    /\ time_step = 0
    /\ k = 0
    /\ timestamp = 0
    /\ start_time = 0
    /\ end_time = 0
    /\ start_write = 0
    /\ end_write = 0
    /\ start_read = 0
    /\ end_read = 0
    /\ result = <<>>
    /\ queries = <<>>
    /\ log = <<>>
    /\ metrics = <<>>
    /\ labels = NoLabels
    /\ points = <<>>
    /\ faithful = TRUE

---------------------------------------------------------------------------
(* The codec alone: pack_data on the write path, query_data's unpacking on  *)
(* the read path, with a sink that may hand a payload back damaged.         *)

SeqsUpTo(S, n) == UNION {[1..m -> S] : m \in 0..n}

CodecInit ==
    /\ Unused
    /\ script = "codec"
    /\ pc = "pack"
    /\ signal \in SeqsUpTo(Samples, MaxSamples)
    /\ duration \in 1..2
    /\ frequency = 0
    /\ chunks = <<>>
    /\ payloads = <<>>

\* the write path: split, pack each chunk (run_benchmark.py:91, 98)
CodecPack ==
    /\ script = "codec" /\ pc = "pack"
    /\ chunks' = np_array_split(signal, duration)
    /\ payloads' = [i \in 1..duration |-> pack_data(chunks'[i])]
    /\ pc' = "stored"
    /\ UNCHANGED <<script, db, err, now, client, influx, reduct, csv, fi, run, frequency,
                   duration, time_step, signal, k, timestamp, start_time, end_time,
                   start_write, end_write, start_read, end_read, result, queries, log,
                   faithful, metrics, labels, points>>

\* the sink hands one payload back with its last bytes missing, or with a byte more
Damaged(data) ==
    {SubSeq(data, 1, Len(data) - m) : m \in 1..(IF Len(data) < 4 THEN Len(data) ELSE 4)}
        \cup {Append(data, 0)}

CodecDamage ==
    /\ script = "codec" /\ pc = "stored" /\ faithful
    /\ \E i \in 1..Len(payloads) : \E d \in Damaged(payloads[i]) :
           payloads' = [payloads EXCEPT ![i] = d]
    /\ faithful' = FALSE
    /\ UNCHANGED <<script, db, pc, err, now, client, influx, reduct, csv, fi, run,
                   frequency, duration, time_step, signal, chunks, k, timestamp,
                   start_time, end_time, start_write, end_write, start_read, end_read,
                   result, queries, log, metrics, labels, points>>

\* the read path: query_data over the payloads (reduct_data_processing.py:41-52)
CodecUnpack ==
    /\ script = "codec" /\ pc = "stored"
    /\ LET r == reduct_unpack_all(payloads)
       IN  /\ result' = r.val
           /\ err' = r.err
    /\ pc' = "done"
    /\ UNCHANGED <<script, db, now, client, influx, reduct, csv, fi, run, frequency,
                   duration, time_step, signal, chunks, k, timestamp, start_time,
                   end_time, start_write, end_write, start_read, end_read, payloads,
                   queries, log, faithful, metrics, labels, points>>

CodecNext == CodecPack \/ CodecDamage \/ CodecUnpack

SpecCodec == CodecInit /\ [][CodecNext]_vars

---------------------------------------------------------------------------
(* The sinks.  Both are external services; the model gives them the contract *)
(* the scripts rely on: a write stores the value under its timestamp, a      *)
(* range query returns what lies in [start, stop) in timestamp order.        *)

\* the elements of a set of points or records, by ascending t; a sink holds one
\* element per timestamp, so that the i-th is the one with i - 1 earlier ones
ByTime(S) ==
    [i \in 1..Cardinality(S) |->
        CHOOSE x \in S : Cardinality({y \in S : y.t < x.t}) = i - 1]

\* write_api().write(record=...): a point replaces the one at its timestamp
InfluxWrite(bucket, record) ==
    LET last(i) == \A j \in (i + 1)..Len(record) : record[j].t # record[i].t
        ts == {record[i].t : i \in 1..Len(record)}
    IN  {p \in bucket : p.t \notin ts}
            \cup {record[i] : i \in {i \in 1..Len(record) : last(i)}}

\* range(start:, stop:) |> sort(columns: ["_time"]), the bounds given in microseconds
InfluxRange(bucket, startUs, stopUs) ==
    ByTime({p \in bucket : startUs * NsPerUs <= p.t /\ p.t < stopUs * NsPerUs})

\* bucket.write("sensor_readings", packed_data, timestamp)
ReductWrite(bucket, ts, data) ==
    {r \in bucket : r.t # ts} \cup {[t |-> ts, data |-> data]}

\* bucket.query("sensor_readings", start=, stop=)
ReductRange(bucket, start, stop) ==
    ByTime({r \in bucket : start <= r.t /\ r.t < stop})

\* what an unfaithful sink may answer instead: the reply without its last element
Lossy(reply) == SubSeq(reply, 1, Len(reply) - 1)

---------------------------------------------------------------------------
(* influxdb_data_processing.py *)

\* a slip: the steps counted from 1, so that the first point lies one step late
influx_store_data_FromOne(sig, start, step) ==
    [i \in 1..Len(sig) |-> [t |-> start + i * step, v |-> sig[i]]]

\* store_data, lines 25-32: the points handed to write_api().write
influx_store_data(sig, start, step) ==
    [i \in 1..Len(sig) |-> [t |-> start + (i - 1) * step, v |-> sig[i]]]

\* a slip: the range without its margin
influx_query_range_NoMargin(start, stop, step) ==
    [sink |-> "influx",
     start |-> time_to_rfc3339(start, NANOSECOND),
     stop |-> time_to_rfc3339(stop, NANOSECOND)]

\* query_data, lines 45-46: the range the Flux query names, in microseconds
influx_query_range(start, stop, step) ==
    [sink |-> "influx",
     start |-> time_to_rfc3339(start - step, NANOSECOND),
     stop |-> time_to_rfc3339(stop + step, NANOSECOND)]

\* query_data, lines 58-64: the values of the first table, an empty array if none
influx_query_data(reply) == [i \in 1..Len(reply) |-> reply[i].v]

---------------------------------------------------------------------------
(* reduct_data_processing.py *)

\* a slip: a range that begins after the start time
reduct_query_range_AfterStart(start, stop) ==
    [sink |-> "reduct", start |-> start + 1, stop |-> stop]

\* query_data, lines 42-44: the range handed to bucket.query
reduct_query_range(start, stop) ==
    [sink |-> "reduct", start |-> start, stop |-> stop]

\* query_data, lines 41-52
reduct_query_data(reply) == reduct_unpack_all([i \in 1..Len(reply) |-> reply[i].data])

---------------------------------------------------------------------------
(* plot_results.py *)

Header == <<"Database", "Frequency (Hz)", "Write Time (s)", "Read Time (s)">>

\* df.to_csv(csv_file_path, index=False) of an empty frame: the header alone,
\* whatever the file held
prepare_csv(file) == <<Header>>

\* a slip: mode="w", the row written over the file
write_to_csv_Truncating(file, database, freq, write_time, read_time) ==
    << <<database, freq, write_time, read_time>> >>

\* df.to_csv(csv_file_path, mode="a", header=False, index=False)
write_to_csv(file, database, freq, write_time, read_time) ==
    Append(file, <<database, freq, write_time, read_time>>)

---------------------------------------------------------------------------
(* generate_sensor_data alone, called with any small integers *)

GeneratorInit ==
    /\ Unused
    /\ script = "generator"
    /\ pc = "call"
    /\ frequency \in (0 - MaxFrequency)..MaxFrequency
    /\ duration \in (0 - MaxDuration)..MaxDuration
    /\ signal = <<>>
    /\ chunks = <<>>
    /\ payloads = <<>>

GeneratorCall ==
    /\ script = "generator" /\ pc = "call"
    /\ \E r \in generate_sensor_data(frequency, duration) :
           /\ signal' = r.val
           /\ err' = r.err
           /\ pc' = IF r.err = "" THEN "returned" ELSE "raised"
    /\ UNCHANGED <<script, db, now, client, influx, reduct, csv, fi, run, frequency,
                   duration, time_step, chunks, k, timestamp, start_time, end_time,
                   start_write, end_write, start_read, end_read, result, payloads,
                   queries, log, faithful, metrics, labels, points>>

GeneratorNext == GeneratorCall

SpecGenerator == GeneratorInit /\ [][GeneratorNext]_vars

---------------------------------------------------------------------------
(* The write loop's timestamps alone (run_benchmark.py:95-102), with the     *)
(* frequencies run_benchmark.py configures.  The signal holds                *)
(* frequency * duration samples; only the chunk lengths are kept.            *)

ConfiguredFrequencies == {1000, 2000, 5000, 10000, 20000, 30000}
ConfiguredDuration == 10

\* len(chunk) of chunk i of np.array_split(signal, sections), len(signal) = n
ChunkLen(n, sections, i) ==
    SplitPoint(n, sections, i) - SplitPoint(n, sections, i - 1)

ChunkStepInit ==
    /\ Unused
    /\ script = "chunk_step"
    /\ pc = "write"
    /\ frequency \in ConfiguredFrequencies
    /\ duration \in 1..ConfiguredDuration
    /\ signal = <<>>
    /\ chunks = <<>>
    /\ payloads = <<>>

ChunkStep ==
    /\ script = "chunk_step" /\ pc = "write"
    /\ k < duration
    /\ timestamp' = timestamp
          + ChunkAdvance(ChunkLen(frequency * duration, duration, k + 1), frequency)
    /\ k' = k + 1
    /\ UNCHANGED <<script, db, pc, err, now, client, influx, reduct, csv, fi, run,
                   frequency, duration, time_step, signal, chunks, start_time, end_time,
                   start_write, end_write, start_read, end_read, result, payloads,
                   queries, log, faithful, metrics, labels, points>>

ChunkStepNext == ChunkStep

SpecChunkStep == ChunkStepInit /\ [][ChunkStepNext]_vars

---------------------------------------------------------------------------
(* reduct_data_processing.py, reduct_example.py, sensor_data_example.py:    *)
(* store_data and its labels.  A metric is a Python float: not-a-number, or *)
(* a multiple of 1 / MetricScale.  calculate_metrics is not computed here:  *)
(* any metric it can return is an input of the write.                       *)

Float(n) == [nan |-> FALSE, v |-> n]
NaN == [nan |-> TRUE, v |-> 0]

\* Python's x >= y on floats, false when either is not a number
Gt_OrEqual(x, y) == ~x.nan /\ ~y.nan /\ x.v >= y.v

\* Python's x > y on floats, false when either is not a number
Gt(x, y) == ~x.nan /\ ~y.nan /\ x.v > y.v

HIGH_RMS == Float(1 * MetricScale)
HIGH_CREST_FACTOR == Float(3 * MetricScale)
HIGH_PEAK_TO_PEAK == Float(5 * MetricScale)

\* the labels dictionary of store_data
store_data_labels(rms, peak_to_peak, crest_factor) ==
    [rms          |-> IF Gt(rms, HIGH_RMS) THEN "high" ELSE "low",
     peak_to_peak |-> IF Gt(peak_to_peak, HIGH_PEAK_TO_PEAK) THEN "high" ELSE "low",
     crest_factor |-> IF Gt(crest_factor, HIGH_CREST_FACTOR) THEN "high" ELSE "low"]

\* the floats a metric is drawn from: 0 to MaxMetric in steps of 1 / MetricScale,
\* and not-a-number (the crest factor of a chunk of zeros is 0 / 0)
MetricValues == {Float(n) : n \in 0..(MaxMetric * MetricScale)} \cup {NaN}

\* the chunks stored: one or two samples
LabelChunks == {<<F32(127, 0)>>, <<F32(128, 0), F32(0, 0)>>}

\* the timestamps stored, in microseconds
LabelTimestamps == {MICROSECOND, MICROSECOND + 1}

LabelsInit ==
    /\ Unused
    /\ script = "store_data"
    /\ pc = "idle"
    /\ frequency = 1
    /\ duration = 1
    /\ signal = <<>>
    /\ chunks = <<>>
    /\ payloads = <<>>

\* the caller's loop body up to the call (reduct_data_processing.py:69-70):
\* the metrics and the payload of one chunk, at one timestamp
Labels_Call ==
    /\ script = "store_data" /\ pc = "idle"
    /\ \E chunk \in LabelChunks :
          /\ signal' = chunk
          /\ payloads' = <<pack_data(chunk)>>
    /\ timestamp' \in LabelTimestamps
    /\ metrics' \in MetricValues \X MetricValues \X MetricValues
    /\ pc' = "call"
    /\ UNCHANGED <<script, db, err, now, client, influx, reduct, csv, fi, run, frequency,
                   duration, time_step, chunks, k, start_time, end_time, start_write,
                   end_write, start_read, end_read, result, queries, log, labels,
                   faithful, points>>

\* store_data(bucket, timestamp, packed_data, rms, peak_to_peak, crest_factor)
Labels_Store ==
    /\ script = "store_data" /\ pc = "call"
    /\ labels' = store_data_labels(metrics[1], metrics[2], metrics[3])
    /\ reduct' = ReductWrite(reduct, timestamp, payloads[1])
    /\ pc' = "stored"
    /\ UNCHANGED <<script, db, err, now, client, influx, csv, fi, run, frequency,
                   duration, time_step, signal, chunks, k, timestamp, start_time,
                   end_time, start_write, end_write, start_read, end_read, result,
                   payloads, queries, log, metrics, faithful, points>>

LabelsNext == Labels_Call \/ Labels_Store

SpecLabels == LabelsInit /\ [][LabelsNext]_vars

\* the label of a metric m whose threshold is `whole`, decided on the scaled integers
LabelOf(m, whole) == IF ~m.nan /\ m.v > whole * MetricScale THEN "high" ELSE "low"

\* C11: after store_data the labels of the write are "high" for a metric
\* strictly above its threshold (1.0 for rms, 5.0 for peak_to_peak, 3.0 for
\* crest_factor) and "low" for any other, a metric equal to its threshold or
\* not a number included; and the record written holds the payload and the
\* timestamp store_data received
C11_LabelBinarization ==
    (script = "store_data" /\ pc = "stored") =>
        /\ labels.rms = LabelOf(metrics[1], 1)
        /\ labels.peak_to_peak = LabelOf(metrics[2], 5)
        /\ labels.crest_factor = LabelOf(metrics[3], 3)
        /\ (metrics[1] = Float(1 * MetricScale) => labels.rms = "low")
        /\ (metrics[2] = Float(5 * MetricScale) => labels.peak_to_peak = "low")
        /\ (metrics[3] = Float(3 * MetricScale) => labels.crest_factor = "low")
        /\ [t |-> timestamp, data |-> pack_data(signal)] \in reduct
        /\ \A r \in reduct : r.t = timestamp => r.data = pack_data(signal)

C11_Witness ==
    /\ script = "store_data" /\ pc = "stored"
    /\ metrics = <<Float(1 * MetricScale), Float(5 * MetricScale + 1), NaN>>
    /\ labels = [rms |-> "low", peak_to_peak |-> "high", crest_factor |-> "low"]
    /\ reduct = {[t |-> timestamp, data |-> pack_data(signal)]}
    /\ Len(signal) = 2

---------------------------------------------------------------------------
(* influxdb_example.py: store_data, which keeps a running timestamp where    *)
(* influxdb_data_processing.store_data multiplies.  influxdb_example.py      *)
(* takes TimeUnits from utils, which does not define it; the NANOSECOND is   *)
(* that of helper_functions.py.                                              *)

\* the timestamps store_data is called with, in nanoseconds
BaseTimestamps == {NANOSECOND, NANOSECOND + 1}

PointsInit ==
    /\ Unused
    /\ script = "influxdb_example"
    /\ pc = "call"
    /\ signal \in SeqsUpTo(Samples, MaxSamples)
    /\ frequency \in 1..MaxFrequency
    /\ duration = 1
    /\ chunks = <<>>
    /\ payloads = <<>>

\* lines 22-26: store_data(client, signal, timestamp, frequency) entered
Points_Call ==
    /\ script = "influxdb_example" /\ pc = "call"
    /\ \E base \in BaseTimestamps :
          /\ start_time' = base
          /\ timestamp' = base
    /\ points' = <<>>
    /\ time_step' = NANOSECOND \div frequency
    /\ k' = 1
    /\ pc' = "loop"
    /\ UNCHANGED <<script, db, err, now, client, influx, reduct, csv, fi, run, frequency,
                   duration, signal, chunks, end_time, start_write, end_write, start_read,
                   end_read, result, payloads, queries, log, metrics, labels, faithful>>

\* lines 28-35: one pass of `for value in signal`
Points_Append ==
    /\ script = "influxdb_example" /\ pc = "loop"
    /\ k <= Len(signal)
    /\ points' = Append(points, [t |-> timestamp, v |-> signal[k]])
    /\ timestamp' = timestamp + time_step
    /\ k' = k + 1
    /\ UNCHANGED <<script, db, pc, err, now, client, influx, reduct, csv, fi, run,
                   frequency, duration, time_step, signal, chunks, start_time, end_time,
                   start_write, end_write, start_read, end_read, result, payloads, queries,
                   log, metrics, labels, faithful>>

\* line 37: the batch handed to write_api().write
Points_Write ==
    /\ script = "influxdb_example" /\ pc = "loop"
    /\ k > Len(signal)
    /\ influx' = InfluxWrite(influx, points)
    /\ pc' = "written"
    /\ UNCHANGED <<script, db, err, now, client, reduct, csv, fi, run, frequency, duration,
                   time_step, signal, chunks, k, timestamp, start_time, end_time,
                   start_write, end_write, start_read, end_read, result, payloads, queries,
                   log, metrics, labels, points, faithful>>

PointsNext == Points_Call \/ Points_Append \/ Points_Write

SpecPoints == PointsInit /\ [][PointsNext]_vars

\* what influxdb_data_processing.store_data builds from the same signal and
\* base timestamp, with the time_step its callers pass in
ProcessingPoints == influx_store_data(signal, start_time, NANOSECOND \div frequency)

---------------------------------------------------------------------------
(* Python: a call with positional arguments only *)

\* the arguments bind to the parameters in order; none of the parameters
\* called here has a default, so that any other number of arguments is a
\* TypeError, raised by the call itself before the body runs
PyCall(params, args) ==
    IF Len(args) # Len(params)
    THEN Raise("TypeError")
    ELSE Ok([p \in {params[i] : i \in 1..Len(params)} |->
                 args[CHOOSE i \in 1..Len(params) : params[i] = p]])

\* influxdb_data_processing.py:17-23 and 37-43: the parameters of store_data
\* and of query_data
StoreDataParams == <<"client", "bucket", "signal", "start_time", "time_step">>
QueryDataParams == <<"client", "bucket", "start_time", "end_time", "time_step">>

---------------------------------------------------------------------------
(* run_benchmark.py: main *)

\* the frequencies of the model's run (the source configures ConfiguredFrequencies)
FREQUENCIES == <<2, 3>>
NUMBER_RUNS == 10

Oversleep == {0, MaxOversleep}

\* a slip: a sleep that returns at once
asyncio_sleep_Early(seconds) == {0}

\* asyncio.sleep(seconds): the time that has passed when it returns, the
\* seconds asked for or a little more
asyncio_sleep(seconds) == {seconds * NANOSECOND + late : late \in Oversleep}

\* a slip: the exception caught by the caller, which goes on as after a return
Abort_Swallowed(e) ==
    /\ pc' = "returned"
    /\ err' = e
    /\ client' = IF client = "open" THEN "closed" ELSE client

\* an exception leaves the coroutine and, uncaught, ends asyncio.run(main()); on
\* its way out of an `async with` the connection is closed
Abort(e) ==
    /\ pc' = "aborted"
    /\ err' = e
    /\ client' = IF client = "open" THEN "closed" ELSE client

loopVars == <<fi, run>>
sinkVars == <<influx, reduct>>
trialVars == <<frequency, duration, time_step, signal, chunks, k, timestamp>>
clockVars == <<start_time, end_time, start_write, end_write, start_read, end_read>>
readVars == <<result, payloads, queries>>

\* main, lines 130-133: the file prepared, the two loops entered, the first
\* trial called
Main_PrepareCsv ==
    /\ script = "run_benchmark" /\ pc = "main"
    /\ csv' = prepare_csv(csv)
    /\ IF Len(FREQUENCIES) >= 1 /\ NUMBER_RUNS >= 1
       THEN fi' = 1 /\ run' = 1 /\ pc' = "influx_enter"
       ELSE UNCHANGED loopVars /\ pc' = "done"
    /\ UNCHANGED <<script, db, err, now, client, sinkVars, trialVars, clockVars, readVars,
                   log, faithful, metrics, labels, points>>

\* benchmark_influxdb, lines 48-51: the step, the connection, the ping
BenchInflux_Enter ==
    /\ script = "run_benchmark" /\ pc = "influx_enter"
    /\ db' = "InfluxDB"
    /\ frequency' = FREQUENCIES[fi]
    /\ duration' = DURATION
    /\ time_step' = NANOSECOND \div FREQUENCIES[fi]
    /\ signal' = <<>> /\ chunks' = <<>> /\ k' = 0 /\ timestamp' = 0
    /\ start_time' = 0 /\ end_time' = 0 /\ start_write' = 0 /\ end_write' = 0
    /\ start_read' = 0 /\ end_read' = 0
    /\ result' = <<>> /\ payloads' = <<>>
    /\ log' = <<>>
    /\ \/ client' = "open" /\ pc' = "influx_generate" /\ UNCHANGED <<err, faithful>>
       \/ client' = "closed" /\ pc' = "aborted" /\ err' = "AssertionError"
            /\ faithful' = FALSE
    /\ UNCHANGED <<script, now, sinkVars, csv, loopVars, queries, metrics, labels,
                   points>>

\* lines 53-54
BenchInflux_Generate ==
    /\ script = "run_benchmark" /\ pc = "influx_generate"
    /\ start_time' = get_current_time(NANOSECOND)
    /\ \E r \in generate_sensor_data(frequency, duration) :
          IF r.err = ""
          THEN /\ signal' = r.val
               /\ log' = Append(log, "generate")
               /\ pc' = "influx_sleep"
               /\ UNCHANGED <<err, client>>
          ELSE Abort(r.err) /\ UNCHANGED <<signal, log>>
    /\ UNCHANGED <<script, db, now, sinkVars, csv, loopVars, frequency, duration,
                   time_step, chunks, k, timestamp, end_time, start_write, end_write,
                   start_read, end_read, readVars, faithful, metrics, labels, points>>

\* lines 56-57: the sleep lasts DURATION seconds or a little more
BenchInflux_Sleep ==
    /\ script = "run_benchmark" /\ pc = "influx_sleep"
    /\ \E slept \in asyncio_sleep(duration) : now' = now + slept
    /\ start_write' = now'
    /\ pc' = "influx_write"
    /\ UNCHANGED <<script, db, err, client, sinkVars, csv, loopVars, trialVars,
                   start_time, end_time, end_write, start_read, end_read, readVars, log,
                   faithful, metrics, labels, points>>

\* line 58: store_influxdb(client, signal, start_time, time_step), where
\* store_influxdb is influxdb_data_processing.store_data (line 8).  The call
\* passes four arguments to five parameters.  Were the arguments bound, the
\* batch would be written and lines 59-62 would read the clock.
BenchInflux_Write ==
    /\ script = "run_benchmark" /\ pc = "influx_write"
    /\ LET call == PyCall(StoreDataParams, <<"client", signal, start_time, time_step>>)
       IN  IF call.err # ""
           THEN /\ Abort(call.err)
                /\ UNCHANGED <<influx, now, end_write, end_time, start_read, log>>
           ELSE /\ influx' = InfluxWrite(influx,
                                 influx_store_data(call.val["signal"],
                                                   call.val["start_time"],
                                                   call.val["time_step"]))
                /\ now' = now + WriteLatency
                /\ end_write' = now'
                /\ end_time' = now'
                /\ start_read' = now'
                /\ log' = Append(log, "write")
                /\ pc' = "influx_read"
                /\ UNCHANGED <<err, client>>
    /\ UNCHANGED <<script, db, reduct, csv, loopVars, trialVars, start_time, start_write,
                   end_read, readVars, faithful, metrics, labels, points>>

\* np.array_equal(signal, result)
array_equal(a, b) == Len(a) = Len(b) /\ \A i \in 1..Len(a) : a[i] = b[i]

---------------------------------------------------------------------------
(* run_benchmark.py: benchmark_reductstore, awaited on its own by a caller,  *)
(* once or several times in a row, each time with one of the frequencies.    *)
(* `run` counts the calls made, `fi` is the index of the frequency passed.   *)

\* lines 86-88: the connection, the bucket, the start time
BenchReduct_Enter ==
    /\ script = "benchmark_reductstore" /\ pc \in {"call", "returned"}
    /\ run < MaxCalls
    /\ run' = run + 1
    /\ \E i \in 1..Len(FREQUENCIES) : fi' = i /\ frequency' = FREQUENCIES[i]
    /\ db' = "ReductStore"
    /\ duration' = DURATION
    /\ time_step' = 0
    /\ signal' = <<>> /\ chunks' = <<>> /\ k' = 0 /\ timestamp' = 0
    /\ end_time' = 0 /\ start_write' = 0 /\ end_write' = 0
    /\ start_read' = 0 /\ end_read' = 0
    /\ result' = <<>> /\ payloads' = <<>>
    /\ log' = <<>>
    /\ \/ /\ client' = "open"
          /\ start_time' = get_current_time(MICROSECOND)
          /\ pc' = "reduct_generate"
          /\ UNCHANGED <<err, faithful>>
       \/ /\ client' = "closed" /\ pc' = "aborted" /\ err' = "SinkFault"
          /\ start_time' = 0
          /\ faithful' = FALSE
    /\ UNCHANGED <<script, now, sinkVars, csv, queries, metrics, labels, points>>

\* lines 90-91
BenchReduct_Generate ==
    /\ script = "benchmark_reductstore" /\ pc = "reduct_generate"
    /\ \E r \in generate_sensor_data(frequency, duration) :
          IF r.err = ""
          THEN /\ signal' = r.val
               /\ chunks' = np_array_split(r.val, duration)
               /\ log' = Append(log, "generate")
               /\ pc' = "reduct_sleep"
               /\ UNCHANGED <<err, client>>
          ELSE Abort(r.err) /\ UNCHANGED <<signal, chunks, log>>
    /\ UNCHANGED <<script, db, now, sinkVars, csv, loopVars, frequency, duration,
                   time_step, k, timestamp, clockVars, readVars, faithful, metrics,
                   labels, points>>

\* lines 93-95
BenchReduct_Sleep ==
    /\ script = "benchmark_reductstore" /\ pc = "reduct_sleep"
    /\ \E slept \in asyncio_sleep(duration) : now' = now + slept
    /\ start_write' = now'
    /\ timestamp' = start_time
    /\ k' = 1
    /\ pc' = "reduct_write"
    /\ UNCHANGED <<script, db, err, client, sinkVars, csv, loopVars, frequency, duration,
                   time_step, signal, chunks, start_time, end_time, end_write, start_read,
                   end_read, readVars, log, faithful, metrics, labels, points>>

\* the write loop has chunks left
ChunksLeft(i, cs) == i <= Len(cs)

\* lines 96-102: one pass of the write loop
BenchReduct_WriteChunk ==
    /\ script = "benchmark_reductstore" /\ pc = "reduct_write"
    /\ ChunksLeft(k, chunks)
    /\ \/ /\ reduct' = ReductWrite(reduct, timestamp, pack_data(chunks[k]))
          /\ now' = now + WriteLatency
          /\ timestamp' = timestamp + ChunkAdvance(Len(chunks[k]), frequency)
          /\ k' = k + 1
          /\ log' = Append(log, "write")
          /\ UNCHANGED <<pc, err, client, faithful>>
       \/ /\ Abort("SinkFault")
          /\ faithful' = FALSE
          /\ UNCHANGED <<reduct, now, timestamp, k, log>>
    /\ UNCHANGED <<script, db, influx, csv, loopVars, frequency, duration, time_step,
                   signal, chunks, clockVars, readVars, metrics, labels, points>>

\* what the sink may hand to query_data for the records of the range: the
\* records, or (unfaithful) all but the last, or the last one short of a byte
ReductReplies(reply) ==
    {[faithful |-> TRUE, records |-> reply]}
      \cup (IF reply = <<>> THEN {}
            ELSE {[faithful |-> FALSE, records |-> Lossy(reply)],
                  [faithful |-> FALSE,
                   records |-> [reply EXCEPT ![Len(reply)].data =
                                   SubSeq(@, 1, Len(@) - 1)]]})

\* lines 103-108 and the end of the `async with`
BenchReduct_Read ==
    /\ script = "benchmark_reductstore" /\ pc = "reduct_write"
    /\ ~ChunksLeft(k, chunks)
    /\ end_write' = now
    /\ end_time' = get_current_time(MICROSECOND)
    /\ start_read' = now
    /\ LET q == reduct_query_range(start_time, end_time')
       IN  /\ queries' = Append(queries, q)
           /\ \/ \E a \in ReductReplies(ReductRange(reduct, q.start, q.stop)) :
                    LET r == reduct_query_data(a.records)
                    IN  /\ payloads' = [i \in 1..Len(a.records) |-> a.records[i].data]
                        /\ faithful' = (faithful /\ a.faithful)
                        /\ IF r.err = ""
                           THEN /\ result' = r.val
                                /\ now' = now + QueryLatency
                                /\ end_read' = now'
                                /\ client' = "closed"
                                /\ log' = Append(log, "read")
                                /\ pc' = "reduct_verify"
                                /\ UNCHANGED err
                           ELSE /\ Abort(r.err)
                                /\ UNCHANGED <<result, now, end_read, log>>
              \/ /\ Abort("SinkFault")
                 /\ faithful' = FALSE
                 /\ UNCHANGED <<result, payloads, now, end_read, log>>
    /\ UNCHANGED <<script, db, sinkVars, csv, loopVars, trialVars, start_time,
                   start_write, metrics, labels, points>>

\* lines 110-112
BenchReduct_Verify ==
    /\ script = "benchmark_reductstore" /\ pc = "reduct_verify"
    /\ IF array_equal(signal, result)
       THEN /\ log' = Append(log, "verify")
            /\ pc' = "reduct_record"
            /\ UNCHANGED <<err, client>>
       ELSE Abort("AssertionError") /\ UNCHANGED log
    /\ UNCHANGED <<script, db, now, sinkVars, csv, loopVars, trialVars, clockVars,
                   readVars, faithful, metrics, labels, points>>

\* lines 114-125, and the return to the caller
BenchReduct_Record ==
    /\ script = "benchmark_reductstore" /\ pc = "reduct_record"
    /\ csv' = write_to_csv(csv, "ReductStore", frequency,
                           end_write - start_write, end_read - start_read)
    /\ log' = Append(log, "record")
    /\ pc' = "returned"
    /\ UNCHANGED <<script, db, err, now, client, sinkVars, loopVars, trialVars, clockVars,
                   readVars, faithful, metrics, labels, points>>

---------------------------------------------------------------------------
(* influxdb_data_processing.py: main, with any small frequency and duration *)
(* in place of the 1000 and the 5 of lines 69-70                            *)

\* lines 72-77: the step, the connection, the ping
Idp_Enter ==
    /\ script = "influxdb_data_processing" /\ pc = "main"
    /\ db' = "InfluxDB"
    /\ time_step' = NANOSECOND \div frequency
    /\ \/ client' = "open" /\ pc' = "generate" /\ UNCHANGED <<err, faithful>>
       \/ client' = "closed" /\ pc' = "aborted" /\ err' = "AssertionError"
            /\ faithful' = FALSE
    /\ UNCHANGED <<script, now, sinkVars, csv, loopVars, frequency, duration, signal,
                   chunks, k, timestamp, clockVars, readVars, log, metrics, labels,
                   points>>

\* lines 79-80
Idp_Generate ==
    /\ script = "influxdb_data_processing" /\ pc = "generate"
    /\ start_time' = get_current_time(NANOSECOND)
    /\ \E r \in generate_sensor_data(frequency, duration) :
          IF r.err = ""
          THEN /\ signal' = r.val
               /\ log' = Append(log, "generate")
               /\ pc' = "sleep"
               /\ UNCHANGED <<err, client>>
          ELSE Abort(r.err) /\ UNCHANGED <<signal, log>>
    /\ UNCHANGED <<script, db, now, sinkVars, csv, loopVars, frequency, duration,
                   time_step, chunks, k, timestamp, end_time, start_write, end_write,
                   start_read, end_read, readVars, faithful, metrics, labels, points>>

\* line 82: the sleep lasts `duration` seconds or a little more
Idp_Sleep ==
    /\ script = "influxdb_data_processing" /\ pc = "sleep"
    /\ \E slept \in asyncio_sleep(duration) : now' = now + slept
    /\ pc' = "write"
    /\ UNCHANGED <<script, db, err, client, sinkVars, csv, loopVars, trialVars, clockVars,
                   readVars, log, faithful, metrics, labels, points>>

\* line 83: store_data(client, "sensor_data", signal, start_time, time_step),
\* the single batch write
Idp_Write ==
    /\ script = "influxdb_data_processing" /\ pc = "write"
    /\ LET call == PyCall(StoreDataParams,
                          <<"client", "sensor_data", signal, start_time, time_step>>)
       IN  IF call.err # ""
           THEN /\ Abort(call.err)
                /\ UNCHANGED <<influx, now, log, faithful>>
           ELSE \/ /\ influx' = InfluxWrite(influx,
                                    influx_store_data(call.val["signal"],
                                                      call.val["start_time"],
                                                      call.val["time_step"]))
                   /\ now' = now + WriteLatency
                   /\ log' = Append(log, "write")
                   /\ pc' = "read"
                   /\ UNCHANGED <<err, client, faithful>>
                \/ /\ Abort("SinkFault")
                   /\ faithful' = FALSE
                   /\ UNCHANGED <<influx, now, log>>
    /\ UNCHANGED <<script, db, reduct, csv, loopVars, trialVars, clockVars, readVars,
                   metrics, labels, points>>

\* lines 85-88: the clock reading, then query_data(client, "sensor_data",
\* start_time, end_time, time_step)
Idp_Read ==
    /\ script = "influxdb_data_processing" /\ pc = "read"
    /\ end_time' = get_current_time(NANOSECOND)
    /\ LET call == PyCall(QueryDataParams,
                          <<"client", "sensor_data", start_time, end_time', time_step>>)
       IN  IF call.err # ""
           THEN /\ Abort(call.err)
                /\ UNCHANGED <<result, queries, now, log, faithful>>
           ELSE LET q == influx_query_range(call.val["start_time"], call.val["end_time"],
                                            call.val["time_step"])
                    reply == InfluxRange(influx, q.start, q.stop)
                IN  /\ queries' = Append(queries, q)
                    /\ \/ /\ \/ result' = influx_query_data(reply) /\ UNCHANGED faithful
                             \/ /\ reply # <<>>
                                /\ result' = influx_query_data(Lossy(reply))
                                /\ faithful' = FALSE
                          /\ now' = now + QueryLatency
                          /\ log' = Append(log, "read")
                          /\ pc' = "verify"
                          /\ UNCHANGED <<err, client>>
                       \/ /\ Abort("SinkFault")
                          /\ faithful' = FALSE
                          /\ UNCHANGED <<result, now, log>>
    /\ UNCHANGED <<script, db, sinkVars, csv, loopVars, trialVars, start_time,
                   start_write, end_write, start_read, end_read, payloads, metrics,
                   labels, points>>

\* lines 90-92, inside the `async with`, which ends with main
Idp_Verify ==
    /\ script = "influxdb_data_processing" /\ pc = "verify"
    /\ IF array_equal(signal, result)
       THEN /\ log' = Append(log, "verify")
            /\ pc' = "done"
            /\ client' = "closed"
            /\ UNCHANGED err
       ELSE Abort("AssertionError") /\ UNCHANGED log
    /\ UNCHANGED <<script, db, now, sinkVars, csv, loopVars, trialVars, clockVars,
                   readVars, faithful, metrics, labels, points>>

---------------------------------------------------------------------------
(* reduct_data_processing.py: main, with any small frequency and duration   *)
(* in place of the 1000 and the 5 of lines 57-58                            *)

\* lines 60-62
Rdp_Enter ==
    /\ script = "reduct_data_processing" /\ pc = "main"
    /\ \/ /\ client' = "open"
          /\ start_time' = get_current_time(MICROSECOND)
          /\ pc' = "generate"
          /\ UNCHANGED <<err, faithful>>
       \/ /\ client' = "closed" /\ pc' = "aborted" /\ err' = "SinkFault"
          /\ faithful' = FALSE
          /\ UNCHANGED start_time
    /\ UNCHANGED <<script, db, now, sinkVars, csv, loopVars, trialVars, end_time,
                   start_write, end_write, start_read, end_read, readVars, log, metrics,
                   labels, points>>

\* lines 64-67; the generation takes time, so that the second clock reading of
\* line 67 may be later than the first of line 62
Rdp_Generate ==
    /\ script = "reduct_data_processing" /\ pc = "generate"
    /\ \E late \in Oversleep : now' = now + late
    /\ \E r \in generate_sensor_data(frequency, duration) :
          IF r.err = ""
          THEN /\ signal' = r.val
               /\ chunks' = np_array_split(r.val, duration)
               /\ timestamp' = now' \div (NANOSECOND \div MICROSECOND)
               /\ k' = 1
               /\ log' = Append(log, "generate")
               /\ pc' = "write"
               /\ UNCHANGED <<err, client>>
          ELSE Abort(r.err) /\ UNCHANGED <<signal, chunks, timestamp, k, log>>
    /\ UNCHANGED <<script, db, sinkVars, csv, loopVars, frequency, duration, time_step,
                   clockVars, readVars, faithful, metrics, labels, points>>

\* lines 68-75: one pass of the write loop, with its one-second sleep
Rdp_WriteChunk ==
    /\ script = "reduct_data_processing" /\ pc = "write"
    /\ ChunksLeft(k, chunks)
    /\ \/ /\ reduct' = ReductWrite(reduct, timestamp, pack_data(chunks[k]))
          /\ \E slept \in asyncio_sleep(1) :
                now' = now + WriteLatency + slept
          /\ timestamp' = timestamp + ChunkAdvance(Len(chunks[k]), frequency)
          /\ k' = k + 1
          /\ log' = Append(log, "write")
          /\ UNCHANGED <<pc, err, client, faithful>>
       \/ /\ Abort("SinkFault")
          /\ faithful' = FALSE
          /\ UNCHANGED <<reduct, now, timestamp, k, log>>
    /\ UNCHANGED <<script, db, influx, csv, loopVars, frequency, duration, time_step,
                   signal, chunks, clockVars, readVars, metrics, labels, points>>

\* lines 77-78
Rdp_Read ==
    /\ script = "reduct_data_processing" /\ pc = "write"
    /\ ~ChunksLeft(k, chunks)
    /\ end_time' = get_current_time(MICROSECOND)
    /\ LET q == reduct_query_range(start_time, end_time')
       IN  /\ queries' = Append(queries, q)
           /\ \/ \E a \in ReductReplies(ReductRange(reduct, q.start, q.stop)) :
                    LET r == reduct_query_data(a.records)
                    IN  /\ payloads' = [i \in 1..Len(a.records) |-> a.records[i].data]
                        /\ faithful' = (faithful /\ a.faithful)
                        /\ IF r.err = ""
                           THEN /\ result' = r.val
                                /\ now' = now + QueryLatency
                                /\ log' = Append(log, "read")
                                /\ pc' = "verify"
                                /\ UNCHANGED <<err, client>>
                           ELSE /\ Abort(r.err)
                                /\ UNCHANGED <<result, now, log>>
              \/ /\ Abort("SinkFault")
                 /\ faithful' = FALSE
                 /\ UNCHANGED <<result, payloads, now, log>>
    /\ UNCHANGED <<script, db, sinkVars, csv, loopVars, trialVars, start_time,
                   start_write, end_write, start_read, end_read, metrics, labels, points>>

\* lines 79-81, inside the `async with`, which ends with main
Rdp_Verify ==
    /\ script = "reduct_data_processing" /\ pc = "verify"
    /\ IF array_equal(signal, result)
       THEN /\ log' = Append(log, "verify")
            /\ pc' = "done"
            /\ client' = "closed"
            /\ UNCHANGED err
       ELSE Abort("AssertionError") /\ UNCHANGED log
    /\ UNCHANGED <<script, db, now, sinkVars, csv, loopVars, trialVars, clockVars,
                   readVars, faithful, metrics, labels, points>>


---------------------------------------------------------------------------
(* reduct_example.py and sensor_data_example.py: main.  Both take their     *)
(* bucket from setup_reductstore, which creates the Client outside any      *)
(* `async with` and returns the bucket alone: nothing in either script      *)
(* closes the client.  The labels of the writes are left out here, see      *)
(* SpecLabels.                                                              *)

\* the passes of the store loop: for _ in range(5)
ExampleRecords == 5
\* "the last 5 seconds" of sensor_data_example: start_time = end_time - 5_000_000
LastSeconds == 5

\* an exception leaves main where no `async with` is open: nothing is closed
Propagate(e) ==
    /\ pc' = "aborted"
    /\ err' = e
    /\ client' = client

\* setup_reductstore, and in reduct_example the clock read before the loop
ExampleSetup(s) ==
    /\ script = s /\ pc = "main"
    /\ client' = "open"
    /\ \/ /\ start_time' = IF s = "reduct_example"
                           THEN get_current_time(MICROSECOND) ELSE start_time
          /\ pc' = "store"
          /\ UNCHANGED <<err, faithful>>
       \/ /\ pc' = "aborted" /\ err' = "SinkFault"
          /\ faithful' = FALSE
          /\ UNCHANGED start_time
    /\ UNCHANGED <<script, db, now, sinkVars, csv, loopVars, trialVars, end_time,
                   start_write, end_write, start_read, end_read, readVars, log, metrics,
                   labels, points>>

\* one pass of the store loop: the clock read, the signal, the write, the sleep
ExampleStore(s) ==
    /\ script = s /\ pc = "store"
    /\ k < ExampleRecords
    /\ timestamp' = get_current_time(MICROSECOND)
    /\ \E r \in generate_sensor_data(frequency, duration) :
          /\ r.err = ""
          /\ signal' = r.val
    /\ \/ /\ reduct' = ReductWrite(reduct, timestamp', pack_data(signal'))
          /\ \E slept \in asyncio_sleep(1) :
                now' = now + WriteLatency + slept
          /\ k' = k + 1
          /\ UNCHANGED <<pc, err, client, faithful>>
       \/ /\ Propagate("SinkFault")
          /\ faithful' = FALSE
          /\ UNCHANGED <<reduct, now, k>>
    /\ UNCHANGED <<script, db, influx, csv, loopVars, frequency, duration, time_step,
                   chunks, clockVars, readVars, log, metrics, labels, points>>

\* after the loop: the range, the query, each record unpacked and printed
ExampleQuery(s) ==
    /\ script = s /\ pc = "store"
    /\ k = ExampleRecords
    /\ end_time' = get_current_time(MICROSECOND)
    /\ start_time' = IF s = "sensor_data_example"
                     THEN end_time' - LastSeconds * MICROSECOND ELSE start_time
    /\ LET q == reduct_query_range(start_time', end_time')
       IN  /\ queries' = Append(queries, q)
           /\ \/ \E a \in ReductReplies(ReductRange(reduct, q.start, q.stop)) :
                    LET r == reduct_query_data(a.records)
                    IN  /\ payloads' = [i \in 1..Len(a.records) |-> a.records[i].data]
                        /\ faithful' = (faithful /\ a.faithful)
                        /\ IF r.err = ""
                           THEN /\ now' = now + QueryLatency
                                /\ pc' = "done"
                                /\ UNCHANGED <<err, client>>
                           ELSE /\ Propagate(r.err)
                                /\ UNCHANGED now
              \/ /\ Propagate("SinkFault")
                 /\ faithful' = FALSE
                 /\ UNCHANGED <<payloads, now>>
    /\ UNCHANGED <<script, db, sinkVars, csv, loopVars, trialVars, start_write, end_write,
                   start_read, end_read, result, log, metrics, labels, points>>

ReductExample_Setup == ExampleSetup("reduct_example")
ReductExample_Store == ExampleStore("reduct_example")
ReductExample_Query == ExampleQuery("reduct_example")

SensorExample_Setup == ExampleSetup("sensor_data_example")
SensorExample_Store == ExampleStore("sensor_data_example")
SensorExample_Query == ExampleQuery("sensor_data_example")

---------------------------------------------------------------------------
(* The scripts, run from a clock reading of about one second *)

StaleCsv == <<Header, <<"InfluxDB", 1000, 0, 0>>>>

Scripts ==
    {"run_benchmark", "benchmark_reductstore", "influxdb_data_processing",
     "reduct_data_processing"}

Examples == {"reduct_example", "sensor_data_example"}

Init ==
    /\ script \in Scripts \cup Examples
    /\ db = ""
    /\ pc = (IF script = "benchmark_reductstore" THEN "call" ELSE "main")
    /\ err = ""
    /\ now = NANOSECOND + 1
    /\ client = "none"
    /\ influx = {}
    /\ reduct = {}
    /\ csv \in (IF script = "run_benchmark" THEN {<<>>, StaleCsv}
                ELSE IF script = "benchmark_reductstore" THEN {<<Header>>, StaleCsv}
                ELSE {<<>>})
    /\ fi = 0
    /\ run = 0
    /\ frequency \in (IF script \in {"run_benchmark", "benchmark_reductstore"} THEN {0}
                      ELSE IF script \in Examples THEN {ExampleFrequency}
                      ELSE 1..MaxFrequency)
    /\ duration \in (IF script \in {"run_benchmark", "benchmark_reductstore"} THEN {0}
                     ELSE IF script \in Examples THEN {1}
                     ELSE 1..MaxDuration)
    /\ time_step = 0
    /\ signal = <<>>
    /\ chunks = <<>>
    /\ k = 0
    /\ timestamp = 0
    /\ start_time = 0
    /\ end_time = 0
    /\ start_write = 0
    /\ end_write = 0
    /\ start_read = 0
    /\ end_read = 0
    /\ result = <<>>
    /\ payloads = <<>>
    /\ queries = <<>>
    /\ log = <<>>
    /\ metrics = <<>>
    /\ labels = NoLabels
    /\ points = <<>>
    /\ faithful = TRUE

Next ==
    \/ Main_PrepareCsv
    \/ BenchInflux_Enter
    \/ BenchInflux_Generate
    \/ BenchInflux_Sleep
    \/ BenchInflux_Write
    \/ BenchReduct_Enter
    \/ BenchReduct_Generate
    \/ BenchReduct_Sleep
    \/ BenchReduct_WriteChunk
    \/ BenchReduct_Read
    \/ BenchReduct_Verify
    \/ BenchReduct_Record
    \/ Idp_Enter
    \/ Idp_Generate
    \/ Idp_Sleep
    \/ Idp_Write
    \/ Idp_Read
    \/ Idp_Verify
    \/ Rdp_Enter
    \/ Rdp_Generate
    \/ Rdp_WriteChunk
    \/ Rdp_Read
    \/ Rdp_Verify
    \/ ReductExample_Setup
    \/ ReductExample_Store
    \/ ReductExample_Query
    \/ SensorExample_Setup
    \/ SensorExample_Store
    \/ SensorExample_Query

Spec == Init /\ [][Next]_vars

---------------------------------------------------------------------------
(* Claims about the codec, under SpecCodec *)

RECURSIVE TotalLen(_)
TotalLen(ps) == IF ps = <<>> THEN 0 ELSE Len(Head(ps)) + TotalLen(Tail(ps))

Malformed(ps) == \E i \in 1..Len(ps) : Len(ps[i]) % 4 # 0

\* C3: what pack_data wrote, unpacked by the read path, is the signal again:
\* each payload holds 4 bytes per sample and unpacks to its chunk, and the
\* unpacked payloads together are the signal, sample for sample
C3_CodecRoundTrip ==
    (script = "codec" /\ pc \in {"stored", "done"} /\ faithful) =>
        /\ \A i \in 1..Len(chunks) :
              /\ Len(payloads[i]) = 4 * Len(chunks[i])
              /\ UnpackRecord(payloads[i]) = Ok(chunks[i])
        /\ pc = "done" => (err = "" /\ Len(result) = Len(signal) /\ result = signal)

C3_Witness ==
    /\ script = "codec" /\ pc = "done" /\ faithful
    /\ duration = 1
    /\ Len(signal) >= 2
    /\ signal[1] # signal[2]
    /\ result = signal

\* C4: a payload whose length is no multiple of 4 ends query_data in
\* struct.error and no signal is returned; a signal that is returned holds
\* every byte of every payload
C4_MalformedPayloadRejected ==
    (script = "codec" /\ pc = "done") =>
        /\ Malformed(payloads) => (err = "struct.error" /\ result = <<>>)
        /\ err = "" => (~Malformed(payloads) /\ 4 * Len(result) = TotalLen(payloads))

C4_Witness ==
    /\ script = "codec" /\ pc = "done"
    /\ \E i \in 1..Len(payloads) : Len(payloads[i]) % 4 # 0 /\ Len(payloads[i]) > 4
    /\ err = "struct.error"

---------------------------------------------------------------------------
(* Claims about the generator, under SpecGenerator *)

\* C5: generate_sensor_data with a non-positive frequency or duration raises
\* and returns no signal
C5_InvalidParametersRejected ==
    (script = "generator" /\ (frequency <= 0 \/ duration <= 0)) => pc # "returned"

---------------------------------------------------------------------------
(* Claims about the write loop's timestamps, under SpecChunkStep *)

\* C9, as amended: from one chunk to the next the timestamp advances by
\* floor(len(chunk) * MICROSECOND / frequency), which for the harness's chunks
\* of `frequency` samples is one second whatever the frequency; that is
\* len(chunk) * (MICROSECOND // frequency) exactly when the frequency divides
\* MICROSECOND
C9_ChunkAdvance ==
    [][(script = "chunk_step" /\ k' = k + 1) =>
          LET len == ChunkLen(frequency * duration, duration, k')
              adv == timestamp' - timestamp
          IN  /\ len = frequency
              /\ adv = MICROSECOND
              /\ (adv = len * (MICROSECOND \div frequency))
                    <=> (MICROSECOND % frequency = 0)]_vars

C9_Witness ==
    /\ script = "chunk_step"
    /\ frequency = 30000
    /\ k = 2
    /\ timestamp = 2 * MICROSECOND

\* C9, as claimed: the advance is len(chunk) * step, step = MICROSECOND // frequency
C9_AdvanceIsLenTimesStep ==
    [][(script = "chunk_step" /\ k' = k + 1) =>
          timestamp' - timestamp
              = ChunkLen(frequency * duration, duration, k') * (MICROSECOND \div frequency)]_vars

---------------------------------------------------------------------------
(* Claims about the harness and the example scripts, under Spec.            *)
(* `faithful` is the sink keeping its contract: every write stored under    *)
(* its timestamp, every query answered with the records of its range in     *)
(* timestamp order.                                                         *)

\* the concatenation of a sequence of sequences
RECURSIVE Concat(_)
Concat(ss) == IF ss = <<>> THEN <<>> ELSE Head(ss) \o Concat(Tail(ss))

\* the payloads of the trial's chunks, in chunk order
ChunkPayloads == [i \in 1..Len(chunks) |-> pack_data(chunks[i])]

ReductVerifying ==
    \/ script = "benchmark_reductstore" /\ pc \in {"reduct_verify", "reduct_record"}
    \/ script = "reduct_data_processing" /\ pc = "verify"

\* C1: with a faithful sink, in benchmark_reductstore and in
\* reduct_data_processing.main alike, the query hands back exactly the trial's
\* payloads in chunk order, the signal query_data rebuilds from them equals the
\* generated signal of frequency * duration samples element for element, and
\* the coroutine never ends in an exception
C1_ReductRoundTrip ==
    /\ (ReductVerifying /\ faithful) =>
          /\ Len(signal) = frequency * duration
          /\ Concat(chunks) = signal
          /\ payloads = ChunkPayloads
          /\ array_equal(signal, result)
    /\ (script \in {"benchmark_reductstore", "reduct_data_processing"} /\ faithful) =>
          (pc # "aborted" /\ err = "")

C1_Witness ==
    /\ script = "benchmark_reductstore" /\ pc = "reduct_record" /\ faithful
    /\ run = 2
    /\ Len(chunks) >= 2
    /\ Cardinality(reduct) > Len(chunks)
    /\ result = signal
    /\ signal # <<>>

\* C2, as claimed: with a faithful sink a trial of benchmark_influxdb does not
\* end in an exception
C2_InfluxTrialCompletes ==
    (script = "run_benchmark" /\ db = "InfluxDB" /\ faithful) => pc # "aborted"

\* the steps of a whole trial: one write for InfluxDB, one per chunk for ReductStore
TrialSteps ==
    <<"generate">>
        \o [i \in 1..(IF db = "InfluxDB" THEN 1 ELSE Len(chunks)) |-> "write"]
        \o <<"read", "verify", "record">>

\* C6, as claimed: a trial of benchmark_influxdb or benchmark_reductstore that
\* has ended on a faithful sink has gone through generate, write, read, verify
\* and record, in that order
C6_TrialStepOrder ==
    (/\ script \in {"run_benchmark", "benchmark_reductstore"}
     /\ db # ""
     /\ pc \in {"aborted", "returned"}
     /\ faithful) => log = TrialSteps

\* C7: a failure, whether a failed equality check or a raising call, ends the
\* run there and then: the step that fails appends no row, writes nothing to a
\* sink and starts nothing; after it no step is taken at all, so that no write
\* or read is retried and no later trial begins; and a trial issues one query
\* at most
C7_FailureAborts ==
    /\ [](script \in {"run_benchmark", "benchmark_reductstore"} =>
            /\ (err # "") <=> (pc = "aborted")
            /\ Len(queries) <= run)
    /\ [][(script \in {"run_benchmark", "benchmark_reductstore"}
              /\ err = "" /\ err' # "") =>
             /\ pc' = "aborted"
             /\ csv' = csv
             /\ influx' = influx /\ reduct' = reduct
             /\ (pc \notin {"call", "returned"} => (fi' = fi /\ run' = run))]_vars
    /\ [][(script \in {"run_benchmark", "benchmark_reductstore"}) => ~(pc = "aborted")]_vars

C7_Witness ==
    /\ script = "benchmark_reductstore" /\ pc = "aborted"
    /\ err = "AssertionError"
    /\ run = 1
    /\ run < MaxCalls
    /\ csv = <<Header>>
    /\ log = <<"generate", "write", "write", "read">>

\* the rows of the file that name ReductStore
ReductRows == {j \in 1..Len(csv) : csv[j][1] = "ReductStore"}

\* the calls of benchmark_reductstore that have returned
CallsReturned == IF pc = "returned" \/ run = 0 THEN run ELSE run - 1

QueryIssued ==
    \/ script = "benchmark_reductstore" /\ pc \in {"reduct_verify", "reduct_record"}
    \/ script \in {"influxdb_data_processing", "reduct_data_processing"} /\ pc = "verify"

LastQuery == queries[Len(queries)]

Distance(a, b) == IF a < b THEN b - a ELSE a - b

\* C10, as amended: the query of influxdb_data_processing.query_data names the
\* range from start_time - time_step to end_time + time_step, each bound
\* rounded to the nearest microsecond, which begins before start_time and ends
\* after end_time; the query of reduct_data_processing.query_data names
\* start_time and end_time themselves, without margin
C10_GuardMargin ==
    QueryIssued =>
        IF LastQuery.sink = "influx"
        THEN /\ 2 * Distance(LastQuery.start * NsPerUs, start_time - time_step) <= NsPerUs
             /\ 2 * Distance(LastQuery.stop * NsPerUs, end_time + time_step) <= NsPerUs
             /\ LastQuery.start * NsPerUs < start_time
             /\ LastQuery.stop * NsPerUs > end_time
        ELSE /\ LastQuery.start = start_time
             /\ LastQuery.stop = end_time

C10_Witness ==
    /\ script = "influxdb_data_processing" /\ pc = "verify"
    /\ frequency = 3
    /\ LastQuery.sink = "influx"
    /\ LastQuery.start * NsPerUs < start_time
    /\ LastQuery.start * NsPerUs # start_time - time_step

\* C10, as claimed: on either path the query starts no later than one
\* per-sample step before start_time and stops no earlier than one step after
\* end_time (to within the microsecond the InfluxDB bounds are rounded to)
C10_GuardMarginOnBothPaths ==
    QueryIssued =>
        IF LastQuery.sink = "influx"
        THEN /\ LastQuery.start * NsPerUs <= start_time - time_step + NsPerUs
             /\ LastQuery.stop * NsPerUs >= end_time + time_step - NsPerUs
        ELSE /\ LastQuery.start <= start_time - MICROSECOND \div frequency
             /\ LastQuery.stop >= end_time + MICROSECOND \div frequency

\* the program has left the scope it opened its connection in: the coroutine
\* has returned, or an exception has ended the run
ScopeEnded == pc \in {"returned", "done", "aborted"}

\* C13, the part that holds: in run_benchmark, benchmark_reductstore,
\* influxdb_data_processing.main and reduct_data_processing.main, which open
\* their connection with `async with`, the connection is closed once the scope
\* has ended, after a return and after an exception (a failed equality
\* assertion included) alike; every write and every query is issued on an open
\* connection; reduct_example.main and sensor_data_example.main never close
\* the connection setup_reductstore opened
C13_ConnectionRelease ==
    /\ []((script \in Scripts /\ ScopeEnded) => client # "open")
    /\ []((script \in Examples /\ pc # "main") => client = "open")
    /\ [][(influx' # influx \/ reduct' # reduct \/ queries' # queries)
              => client = "open"]_vars

C13_Witness ==
    /\ script = "reduct_data_processing" /\ pc = "aborted"
    /\ err = "AssertionError"
    /\ client = "closed"
    /\ Len(queries) = 1
    /\ reduct # {}

\* C13, as claimed: in the harness and in every example script's main the
\* connection is released once the scope has ended
C13_ReleasedEverywhere == ScopeEnded => client # "open"

\* the signal has been generated and split, and the locals still stand
SignalSplit ==
    \/ script = "benchmark_reductstore"
          /\ pc \in {"reduct_sleep", "reduct_write", "reduct_verify", "reduct_record"}
    \/ script = "reduct_data_processing" /\ pc \in {"write", "verify"}

\* C15: the generated signal holds frequency * duration samples, and
\* np.array_split(signal, duration) cuts it into `duration` chunks of
\* `frequency` samples each (the length being a multiple of `duration`, there
\* is no remainder) whose concatenation in chunk order is the signal
C15_ChunkPartition ==
    SignalSplit =>
        /\ frequency >= 1 /\ duration >= 1
        /\ Len(signal) = frequency * duration
        /\ Len(chunks) = duration
        /\ \A i \in 1..Len(chunks) : Len(chunks[i]) = frequency
        /\ Concat(chunks) = signal

C15_Witness ==
    /\ script = "reduct_data_processing" /\ pc = "write"
    /\ frequency = 3 /\ duration = 3
    /\ Len(signal) = 9
    /\ chunks = <<SubSeq(signal, 1, 3), SubSeq(signal, 4, 6), SubSeq(signal, 7, 9)>>
    /\ signal[1] # signal[9]

\* the timestamp of chunk i of a write loop that began at `first`
RECURSIVE TimestampOf(_, _)
TimestampOf(first, i) ==
    IF i <= 1 THEN first
    ELSE TimestampOf(first, i - 1) + ChunkAdvance(Len(chunks[i - 1]), frequency)

\* the timestamp of the first chunk: start_time in benchmark_reductstore; in
\* reduct_data_processing.main the clock reading of line 67, found again from
\* the running timestamp once the loop has ended
FirstTimestamp ==
    IF script = "benchmark_reductstore" THEN start_time
    ELSE timestamp - TimestampOf(0, Len(chunks) + 1)

\* C17: when the range query has been issued, every timestamp the trial wrote,
\* each computed from the base time and the step, lies in
\* start_time <= t < end_time: the timestamps of the chunks in
\* benchmark_reductstore and in reduct_data_processing.main, where the record
\* of each chunk is in the entry under its timestamp, and the timestamps of
\* the points in influxdb_data_processing.main.  (A trial of
\* benchmark_influxdb in run_benchmark writes nothing and issues no query.)
C17_WrittenInsideRange ==
    QueryIssued =>
        IF script = "influxdb_data_processing"
        THEN /\ {p.t : p \in influx} =
                    {start_time + (i - 1) * time_step : i \in 1..Len(signal)}
             /\ \A p \in influx : start_time <= p.t /\ p.t < end_time
        ELSE \A i \in 1..Len(chunks) :
                LET t == TimestampOf(FirstTimestamp, i)
                IN  /\ \E r \in reduct : r.t = t /\ r.data = pack_data(chunks[i])
                    /\ start_time <= t /\ t < end_time

C17_Witness ==
    /\ script = "influxdb_data_processing" /\ pc = "verify"
    /\ frequency = 3 /\ duration = 2
    /\ Cardinality(influx) = 6
    /\ \E p \in influx : p.t = start_time + 5 * time_step /\ p.t < end_time
    /\ result = signal

\* C18, as claimed: when an example script has queried, the timestamp of
\* every record its loop stored lies between the start and the end of the
\* queried range
C18_ExampleQueryCovers ==
    (script \in Examples /\ pc = "done") =>
        /\ Cardinality(reduct) = ExampleRecords
        /\ \A r \in reduct : start_time <= r.t /\ r.t <= end_time

\* C18, the half that holds: in reduct_example.main, whose start_time is read
\* before the loop, the five records lie inside the queried range
C18_ReductExampleCovers ==
    (script = "reduct_example" /\ pc = "done") =>
        /\ Cardinality(reduct) = ExampleRecords
        /\ \A r \in reduct : start_time <= r.t /\ r.t < end_time

====
